---- MODULE Spec2Model ----
(***************************************************************************)
(* A model of scripts/visualize.py: one run of the script, from the       *)
(* command line to the process exit.                                       *)
(*                                                                         *)
(* A uint64 word is represented by the set of its one-bit positions        *)
(* (a subset of 0 .. 63), so that (word >> b) & 1 is membership of b.      *)
(* A string is a sequence of one-character strings.  A float matrix the    *)
(* libraries return is represented by its shape only.                      *)
(***************************************************************************)
EXTENDS Integers, Sequences, FiniteSets, TLC

VARIABLES
    argv,          \* sys.argv[1:], a sequence of at most one path
    byteorder,     \* byte order of the host, fixed for the run
    inputFile,     \* the input path on disk: "missing", "malformed" or "ok"
    fileData,      \* the record array stored in the input file
    pc,            \* position of the run
    data,          \* visualize: data
    X,             \* visualize: X, the decoded matrix, a sequence of rows
    terms,         \* visualize: terms
    usages,        \* visualize: usages
    n_pca,         \* visualize: n_pca, <<>> until assigned
    X_pca,         \* shape of X_pca, <<>> until assigned
    perplexity,    \* visualize: perplexity, <<>> until assigned
    X_embedded,    \* shape of X_embedded, <<>> until assigned
    norm_usages,   \* visualize: norm_usages as fractions <<num, den>>
    annotated,     \* per record already visited by the loop: annotated or not
    output_file,   \* visualize: output_file, <<>> until assigned
    artifacts,     \* paths plt.savefig has written
    writes,        \* number of plt.savefig calls
    console,       \* what was printed, in order
    failedStage,   \* stage in which an exception escaped, "" if none
    error,         \* class of the escaped exception, "" if none
    exitStatus,    \* <<>> while running, <<status>> once the process exited
    trace          \* the pipeline stages the run went through, in order

vars == <<argv, byteorder, inputFile, fileData, pc, data, X, terms, usages,
          n_pca, X_pca, perplexity, X_embedded, norm_usages, annotated,
          output_file, artifacts, writes, console, failedStage, error,
          exitStatus, trace>>

----------------------------------------------------------------------------
(* Bounds of the model *)

MaxRecords == 3
MaxVecRecords == 2
MaxWords == 2
MaxSamples == 52

(* Constants of the program *)

WordBits == 64
ByteBits == 8
PcaCap == 50
PerplexityCap == 30
EmbedDims == 2
ThresholdNum == 4
ThresholdDen == 5

----------------------------------------------------------------------------
(* Arithmetic *)

Min(a, b) == IF a <= b THEN a ELSE b

Pow2(j) == 2 ^ j

SeqMin(s) == CHOOSE m \in {s[i] : i \in DOMAIN s} : \A i \in DOMAIN s : m <= s[i]

SeqMax(s) == CHOOSE m \in {s[i] : i \in DOMAIN s} : \A i \in DOMAIN s : m >= s[i]

----------------------------------------------------------------------------
(* Strings *)

LowerChar(c) ==
    CASE c = "A" -> "a"
      [] c = "C" -> "c"
      [] c = "O" -> "o"
      [] c = "X" -> "x"
      [] OTHER -> c

Lower(s) == [i \in 1..Len(s) |-> LowerChar(s[i])]

Contains(s, sub) ==
    \E i \in 1..(Len(s) - Len(sub) + 1) : SubSeq(s, i, i + Len(sub) - 1) = sub

RECURSIVE StrReplace(_, _, _)
StrReplace(s, old, new) ==
    IF Len(s) < Len(old) THEN s
    ELSE IF SubSeq(s, 1, Len(old)) = old
         THEN new \o StrReplace(SubSeq(s, Len(old) + 1, Len(s)), old, new)
         ELSE <<Head(s)>> \o StrReplace(Tail(s), old, new)

DotJson == <<".", "j", "s", "o", "n">>

DotPng == <<".", "p", "n", "g">>

target_keywords ==
    << <<"c", "a", "t">>,
       <<"d", "o", "g">>,
       <<"w", "o", "l", "f">>,
       <<"a", "n", "i", "m", "a", "l">>,
       <<"c", "a", "r">>,
       <<"t", "r", "u", "c", "k">>,
       <<"b", "i", "c", "y", "c", "l", "e">>,
       <<"v", "e", "h", "i", "c", "l", "e">> >>

----------------------------------------------------------------------------
(* Decoding of one record's packed words *)

BitOf(w, b) == IF b \in w THEN 1 ELSE 0

ByteOfWord(w, k) ==
    BitOf(w, ByteBits * k) * Pow2(0) + BitOf(w, ByteBits * k + 1) * Pow2(1)
    + BitOf(w, ByteBits * k + 2) * Pow2(2) + BitOf(w, ByteBits * k + 3) * Pow2(3)
    + BitOf(w, ByteBits * k + 4) * Pow2(4) + BitOf(w, ByteBits * k + 5) * Pow2(5)
    + BitOf(w, ByteBits * k + 6) * Pow2(6) + BitOf(w, ByteBits * k + 7) * Pow2(7)

BytesPerWord == WordBits \div ByteBits

ViewU8(words, order) ==
    [B \in 1..(BytesPerWord * Len(words)) |->
        LET w == words[((B - 1) \div BytesPerWord) + 1]
            k == (B - 1) % BytesPerWord
        IN  ByteOfWord(w, IF order = "little" THEN k ELSE BytesPerWord - 1 - k)]

(* Variant: np.unpackbits with bitorder='little'. *)
UnpackBitsLittle(bytes) ==
    [i \in 1..(ByteBits * Len(bytes)) |->
        (bytes[((i - 1) \div ByteBits) + 1] \div Pow2((i - 1) % ByteBits)) % 2]

UnpackBits(bytes) ==
    [i \in 1..(ByteBits * Len(bytes)) |->
        (bytes[((i - 1) \div ByteBits) + 1]
            \div Pow2(ByteBits - 1 - ((i - 1) % ByteBits))) % 2]

DecodeRow(item, order) == UnpackBits(ViewU8(item.vector, order))

DecodedRows(d, order) == [i \in 1..Len(d) |-> DecodeRow(d[i], order)]

(* Variant: rows of unequal length are accepted. *)
IsRaggedNever(rows) == FALSE

IsRagged(rows) ==
    \E i, j \in DOMAIN rows : Len(rows[i]) # Len(rows[j])

Shape(M) == IF Len(M) = 0 THEN <<0>> ELSE <<Len(M), Len(M[1])>>

----------------------------------------------------------------------------
(* The library calls, by their documented contracts *)

PcaFails(shape, k) ==
    \/ Len(shape) # 2
    \/ shape[1] < 1
    \/ shape[2] < 1
    \/ k > Min(shape[1], shape[2])

PcaShape(shape, k) == <<shape[1], k>>

TsneFails(shape, p) ==
    \/ p >= shape[1]
    \/ EmbedDims > Min(shape[1], shape[2])

TsneShape(shape) == <<shape[1], EmbedDims>>

----------------------------------------------------------------------------
(* Usage normalization and the selection of the records to annotate *)

(* Variant: the divisor is the maximum instead of the range. *)
NormUsagesByMax(us) ==
    IF Len(us) > 0 /\ SeqMax(us) > SeqMin(us)
    THEN [i \in 1..Len(us) |-> <<us[i] - SeqMin(us), SeqMax(us)>>]
    ELSE [i \in 1..Len(us) |-> <<0, 1>>]

NormUsages(us) ==
    IF Len(us) > 0 /\ SeqMax(us) > SeqMin(us)
    THEN [i \in 1..Len(us) |-> <<us[i] - SeqMin(us), SeqMax(us) - SeqMin(us)>>]
    ELSE [i \in 1..Len(us) |-> <<0, 1>>]

IsHighUsage(f) == ThresholdDen * f[1] > ThresholdNum * f[2]

HasLower(term) == term.kind = "str"

(* Variant: the keyword match without lower(). *)
IsTargetCaseSensitive(term) ==
    \E k \in 1..Len(target_keywords) : Contains(term.text, target_keywords[k])

IsTarget(term) ==
    \E k \in 1..Len(target_keywords) :
        Contains(Lower(term.text), target_keywords[k])

AnnotationOf(term, f) ==
    IF IsTarget(term) THEN "bold"
    ELSE IF IsHighUsage(f) THEN "plain"
    ELSE "none"

FirstWithoutLower(ts) ==
    IF \A i \in 1..Len(ts) : HasLower(ts[i]) THEN 0
    ELSE CHOOSE i \in 1..Len(ts) :
            /\ ~HasLower(ts[i])
            /\ \A j \in 1..(i - 1) : HasLower(ts[j])

(* Variant: the emptiness check is missing. *)
NotDataNever(d) == FALSE

NotData(d) == d = <<>>

(* Variant: the component count is taken from the feature axis. *)
NPcaOfFeatures(shape) == Min(PcaCap, shape[2])

(* Variant: the component count is not capped by the number of samples. *)
NPcaUncapped(shape) == PcaCap

NPca(shape) == Min(PcaCap, shape[1])

(* Variant: the perplexity is capped by n instead of n - 1. *)
PerplexityOffByOne(n) == IF n > 1 THEN Min(PerplexityCap, n) ELSE 1

Perplexity(n) == IF n > 1 THEN Min(PerplexityCap, n - 1) ELSE 1

OutputFile(filename) == StrReplace(filename, DotJson, DotPng)

----------------------------------------------------------------------------
(* The inputs of a run *)

TermCat == [kind |-> "str", text |-> <<"C", "a", "t">>]

TermOx == [kind |-> "str", text |-> <<"o", "x">>]

TermDict == [kind |-> "dict", text |-> <<"c", "a", "t">>]

TermSamples == {TermCat, TermOx, TermDict}

UsageSamples == {0, 8, 9, 10}

WordOne == {0}

WordMixed == {1, 62}

WordSamples == {WordOne, WordMixed}

VectorSamples == UNION {[1..k -> WordSamples] : k \in 0..MaxWords}

PathPlain == <<"m">> \o DotJson

PathInDir == <<"d", "/", "m">> \o DotJson

PathDirJson == <<"a">> \o DotJson \o <<".", "d", "/", "m">> \o DotJson

PathSamples == {PathPlain, PathInDir, PathDirJson}

SelectRecords ==
    {[term |-> t, usage |-> u, vector |-> <<WordMixed>>] :
        t \in TermSamples, u \in UsageSamples}

SelectData == UNION {[1..n -> SelectRecords] : n \in 0..MaxRecords}

VectorRecords ==
    {[term |-> TermOx, usage |-> 1, vector |-> v] : v \in VectorSamples}

VectorData == UNION {[1..n -> VectorRecords] : n \in 1..MaxVecRecords}

SizeData ==
    {[i \in 1..n |-> [term |-> TermOx, usage |-> i, vector |-> <<WordOne>>]] :
        n \in 0..MaxSamples}

PairData ==
    << [term |-> TermCat, usage |-> 10, vector |-> <<WordOne>>],
       [term |-> TermOx, usage |-> 1, vector |-> <<WordMixed>>] >>

InitRun ==
    /\ pc = "Idle"
    /\ data = <<>>
    /\ X = <<>>
    /\ terms = <<>>
    /\ usages = <<>>
    /\ n_pca = <<>>
    /\ X_pca = <<>>
    /\ perplexity = <<>>
    /\ X_embedded = <<>>
    /\ norm_usages = <<>>
    /\ annotated = <<>>
    /\ output_file = <<>>
    /\ artifacts = {}
    /\ writes = 0
    /\ console = <<>>
    /\ failedStage = ""
    /\ error = ""
    /\ exitStatus = <<>>
    /\ trace = <<"Idle">>

InitNoArgument ==
    /\ argv = <<>>
    /\ byteorder = "little"
    /\ inputFile = "ok"
    /\ fileData = PairData

InitPaths ==
    /\ argv \in {<<p>> : p \in PathSamples}
    /\ byteorder = "little"
    /\ inputFile \in {"missing", "malformed", "ok"}
    /\ fileData = PairData

InitVectors ==
    /\ argv = <<PathPlain>>
    /\ byteorder \in {"little", "big"}
    /\ inputFile = "ok"
    /\ fileData \in VectorData

InitSelect ==
    /\ argv = <<PathPlain>>
    /\ byteorder = "little"
    /\ inputFile = "ok"
    /\ fileData \in SelectData

InitSizes ==
    /\ argv = <<PathPlain>>
    /\ byteorder = "little"
    /\ inputFile = "ok"
    /\ fileData \in SizeData

Init ==
    /\ InitRun
    /\ \/ InitNoArgument
       \/ InitPaths
       \/ InitVectors
       \/ InitSelect
       \/ InitSizes

----------------------------------------------------------------------------
(* The run, step by step *)

filename == argv[1]

(* Variant: the exception is caught, reported, and the process exits 0. *)
RaiseCaught(stage, exc, printed) ==
    /\ pc' = "Failed"
    /\ failedStage' = stage
    /\ error' = exc
    /\ console' = console \o printed \o <<"Traceback">>
    /\ exitStatus' = <<0>>
    /\ trace' = Append(trace, "Failed")

Raise(stage, exc, printed) ==
    /\ pc' = "Failed"
    /\ failedStage' = stage
    /\ error' = exc
    /\ console' = console \o printed \o <<"Traceback">>
    /\ exitStatus' = <<1>>
    /\ trace' = Append(trace, "Failed")

Proceed(next, printed) ==
    /\ pc' = next
    /\ console' = console \o printed
    /\ UNCHANGED <<failedStage, error>>

UsageExit ==
    /\ pc = "Idle"
    /\ Len(argv) < 1
    /\ Proceed("UsageExit", <<"Usage">>)
    /\ exitStatus' = <<1>>
    /\ UNCHANGED <<argv, byteorder, inputFile, fileData, data, X, terms,
                   usages, n_pca, X_pca, perplexity, X_embedded, norm_usages,
                   annotated, output_file, artifacts, writes, trace>>

LoadMemory ==
    /\ pc = "Idle"
    /\ Len(argv) >= 1
    /\ IF inputFile = "missing"
       THEN /\ Raise("load", "FileNotFoundError", <<"Loading">>)
            /\ UNCHANGED data
       ELSE IF inputFile = "malformed"
       THEN /\ Raise("load", "JSONDecodeError", <<"Loading">>)
            /\ UNCHANGED data
       ELSE /\ data' = fileData
            /\ Proceed("Loaded", <<"Loading">>)
            /\ trace' = Append(trace, "Loaded")
            /\ UNCHANGED exitStatus
    /\ UNCHANGED <<argv, byteorder, inputFile, fileData, X, terms, usages,
                   n_pca, X_pca, perplexity, X_embedded, norm_usages,
                   annotated, output_file, artifacts, writes>>

NoDataReturn ==
    /\ pc = "Loaded"
    /\ NotData(data)
    /\ Proceed("Returned", <<"No data found.">>)
    /\ exitStatus' = <<0>>
    /\ trace' = Append(trace, "Returned")
    /\ UNCHANGED <<argv, byteorder, inputFile, fileData, data, X, terms,
                   usages, n_pca, X_pca, perplexity, X_embedded, norm_usages,
                   annotated, output_file, artifacts, writes>>

DecodeVectors ==
    /\ pc = "Loaded"
    /\ ~NotData(data)
    /\ LET rows == DecodedRows(data, byteorder)
       IN  IF IsRagged(rows)
           THEN /\ Raise("decode", "ValueError", <<"Found", "Decoding">>)
                /\ UNCHANGED <<X, terms, usages>>
           ELSE /\ X' = rows
                /\ terms' = [i \in 1..Len(data) |-> data[i].term]
                /\ usages' = [i \in 1..Len(data) |-> data[i].usage]
                /\ Proceed("Decoded", <<"Found", "Decoding", "Done decoding.">>)
                /\ trace' = Append(trace, "Decoded")
                /\ UNCHANGED exitStatus
    /\ UNCHANGED <<argv, byteorder, inputFile, fileData, data, n_pca, X_pca,
                   perplexity, X_embedded, norm_usages, annotated,
                   output_file, artifacts, writes>>

RunPCA ==
    /\ pc = "Decoded"
    /\ n_pca' = <<NPca(Shape(X))>>
    /\ IF PcaFails(Shape(X), n_pca'[1])
       THEN /\ Raise("reduce", "ValueError", <<"Original Vector shape", "Running PCA">>)
            /\ UNCHANGED X_pca
       ELSE /\ X_pca' = PcaShape(Shape(X), n_pca'[1])
            /\ Proceed("PcaDone", <<"Original Vector shape", "Running PCA", "PCA shape">>)
            /\ UNCHANGED <<exitStatus, trace>>
    /\ UNCHANGED <<argv, byteorder, inputFile, fileData, data, X, terms,
                   usages, perplexity, X_embedded, norm_usages, annotated,
                   output_file, artifacts, writes>>

RunTSNE ==
    /\ pc = "PcaDone"
    /\ perplexity' = <<Perplexity(Len(data))>>
    /\ IF TsneFails(X_pca, perplexity'[1])
       THEN /\ Raise("reduce", "ValueError", <<"Running t-SNE">>)
            /\ UNCHANGED X_embedded
       ELSE /\ X_embedded' = TsneShape(X_pca)
            /\ Proceed("Reduced", <<"Running t-SNE">>)
            /\ trace' = Append(trace, "Reduced")
            /\ UNCHANGED exitStatus
    /\ UNCHANGED <<argv, byteorder, inputFile, fileData, data, X, terms,
                   usages, n_pca, X_pca, norm_usages, annotated, output_file,
                   artifacts, writes>>

Plot ==
    /\ pc = "Reduced"
    /\ norm_usages' = NormUsages(usages)
    /\ LET bad == FirstWithoutLower(terms)
       IN  IF bad # 0
           THEN /\ annotated' = [i \in 1..(bad - 1) |->
                                    AnnotationOf(terms[i], norm_usages'[i])]
                /\ Raise("render", "AttributeError", <<"Plotting">>)
           ELSE /\ annotated' = [i \in 1..Len(terms) |->
                                    AnnotationOf(terms[i], norm_usages'[i])]
                /\ Proceed("Rendered", <<"Plotting", "Annotated">>)
                /\ trace' = Append(trace, "Rendered")
                /\ UNCHANGED exitStatus
    /\ UNCHANGED <<argv, byteorder, inputFile, fileData, data, X, terms,
                   usages, n_pca, X_pca, perplexity, X_embedded, output_file,
                   artifacts, writes>>

SaveFig ==
    /\ pc = "Rendered"
    /\ output_file' = OutputFile(filename)
    /\ artifacts' = artifacts \cup {output_file'}
    /\ writes' = writes + 1
    /\ Proceed("Done", <<"Plot saved">>)
    /\ trace' = Append(trace, "Done")
    /\ exitStatus' = <<0>>
    /\ UNCHANGED <<argv, byteorder, inputFile, fileData, data, X, terms,
                   usages, n_pca, X_pca, perplexity, X_embedded, norm_usages,
                   annotated>>

Next ==
    \/ UsageExit
    \/ LoadMemory
    \/ NoDataReturn
    \/ DecodeVectors
    \/ RunPCA
    \/ RunTSNE
    \/ Plot
    \/ SaveFig

Spec == Init /\ [][Next]_vars

----------------------------------------------------------------------------
(* Vocabulary of the properties *)

Terminated == pc \in {"Done", "Failed", "Returned", "UsageExit"}

FileLoaded == Len(argv) >= 1 /\ inputFile = "ok" /\ pc # "Idle"

DecodeAttempted == FileLoaded /\ pc \notin {"Loaded", "Returned"}

StageOrder == <<"Idle", "Loaded", "Decoded", "Reduced", "Rendered", "Done">>

IsPrefix(s, t) == Len(s) <= Len(t) /\ SubSeq(t, 1, Len(s)) = s

EqualWordCounts(d) ==
    \A r \in 1..Len(d) : Len(d[r].vector) = Len(d[1].vector)

AllStrings(d) == \A r \in 1..Len(d) : d[r].term.kind = "str"

LowUsage(d) ==
    CHOOSE u \in {d[r].usage : r \in 1..Len(d)} :
        \A r \in 1..Len(d) : u <= d[r].usage

HighUsage(d) ==
    CHOOSE u \in {d[r].usage : r \in 1..Len(d)} :
        \A r \in 1..Len(d) : u >= d[r].usage

LabelHasKeyword(label) ==
    \E k \in 1..Len(target_keywords) :
        \E off \in 0..(Len(label) - Len(target_keywords[k])) :
            \A j \in 1..Len(target_keywords[k]) :
                LowerChar(label[off + j]) = target_keywords[k][j]

UsageAboveThreshold(d, r) ==
    /\ HighUsage(d) > LowUsage(d)
    /\ ThresholdDen * (d[r].usage - LowUsage(d))
          > ThresholdNum * (HighUsage(d) - LowUsage(d))

LastSlash(path) ==
    IF \E i \in 1..Len(path) : path[i] = "/"
    THEN CHOOSE i \in 1..Len(path) :
            path[i] = "/" /\ \A j \in (i + 1)..Len(path) : path[j] # "/"
    ELSE 0

LastDot(path) ==
    IF \E i \in (LastSlash(path) + 2)..Len(path) : path[i] = "."
    THEN CHOOSE i \in (LastSlash(path) + 2)..Len(path) :
            path[i] = "." /\ \A j \in (i + 1)..Len(path) : path[j] # "."
    ELSE Len(path) + 1

ExtensionReplaced(path) == SubSeq(path, 1, LastDot(path) - 1) \o DotPng

CodeBitPosition(j, order) ==
    IF order = "little"
    THEN ByteBits * (j \div ByteBits) + (ByteBits - 1 - (j % ByteBits))
    ELSE WordBits - 1 - j

----------------------------------------------------------------------------
(* C1 as stated: every decoded row has word_count * 64 elements and element *)
(* i is (words[i div 64] >> (i mod 64)) & 1, least significant bit first.   *)
C1_LsbFirst ==
    X # <<>> =>
        \A r \in 1..Len(X) :
            /\ Len(X[r]) = Len(data[r].vector) * WordBits
            /\ \A i \in 0..(Len(X[r]) - 1) :
                  X[r][i + 1] =
                      BitOf(data[r].vector[(i \div WordBits) + 1], i % WordBits)

(* C1 amended: every decoded row has word_count * 64 elements, words are    *)
(* concatenated in stored order, and element i is bit p(i mod 64) of word   *)
(* i div 64, where on a little-endian host p(j) = 8*(j div 8) + 7 - j mod 8 *)
(* (bytes least significant first, bits most significant first inside each  *)
(* byte) and on a big-endian host p(j) = 63 - j.                            *)
C1_ByteWiseMsbFirst ==
    X # <<>> =>
        \A r \in 1..Len(X) :
            /\ Len(X[r]) = Len(data[r].vector) * WordBits
            /\ \A i \in 0..(Len(X[r]) - 1) :
                  X[r][i + 1] =
                      BitOf(data[r].vector[(i \div WordBits) + 1],
                            CodeBitPosition(i % WordBits, byteorder))

C1_Witness ==
    /\ pc = "Decoded"
    /\ byteorder = "little"
    /\ Len(data) = 2
    /\ data[1].vector = <<WordOne, WordMixed>>
    /\ X[1][8] = 1
    /\ X[1][WordBits + 7] = 1

C3_EmptyFails ==
    (FileLoaded /\ fileData = <<>> /\ Terminated) =>
        pc = "Failed" /\ exitStatus = <<1>>

(* C3 amended: a dataset with zero records stops the run before decoding or *)
(* reduction is attempted and without an artifact, but by a normal return:  *)
(* "No data found." is printed and the process exits with status 0.         *)
C3_EmptyReturnsNormally ==
    (FileLoaded /\ fileData = <<>> /\ pc # "Loaded") =>
        /\ pc = "Returned"
        /\ exitStatus = <<0>>
        /\ console[Len(console)] = "No data found."
        /\ error = ""
        /\ X = <<>>
        /\ n_pca = <<>>
        /\ X_pca = <<>>
        /\ X_embedded = <<>>
        /\ artifacts = {}

C3_Witness == pc = "Returned" /\ data = <<>> /\ exitStatus = <<0>>

(* C4 as stated: with exactly one record the run fails at the reduction     *)
(* stage, neither the linear nor the nonlinear stage produces an output and *)
(* no artifact is written.                                                  *)
C4_NeitherStageProduces ==
    (DecodeAttempted /\ Len(fileData) = 1) =>
        /\ X_pca = <<>>
        /\ X_embedded = <<>>
        /\ artifacts = {}
        /\ Terminated => (pc = "Failed" /\ failedStage = "reduce")

(* C4 amended: with exactly one record the run fails at the reduction stage *)
(* and writes no artifact; the linear stage does run, with one component,   *)
(* and yields a 1 x 1 matrix when the record has at least one word; it is   *)
(* the nonlinear stage, given perplexity 1, that raises, so no 2-D          *)
(* embedding is produced.                                                   *)
C4_OneRecordFailsInReduction ==
    (DecodeAttempted /\ Len(fileData) = 1) =>
        /\ X_embedded = <<>>
        /\ artifacts = {}
        /\ pc \in {"Decoded", "PcaDone", "Failed"}
        /\ pc = "Failed" => failedStage = "reduce"
        /\ (pc \in {"PcaDone", "Failed"}) => n_pca = <<1>>
        /\ (pc = "Failed" /\ Len(fileData[1].vector) >= 1) =>
              X_pca = <<1, 1>> /\ perplexity = <<1>>

C4_Witness ==
    /\ Len(data) = 1
    /\ pc = "Failed"
    /\ X_pca = <<1, 1>>
    /\ perplexity = <<1>>

(* C5: if some record's word count differs from the first record's, the     *)
(* decoding raises and the run aborts before reduction; if all word counts  *)
(* are equal, decoding yields a rectangular matrix of record_count rows.    *)
C5_WordCountEnforced ==
    (DecodeAttempted /\ fileData # <<>>) =>
        IF EqualWordCounts(fileData)
        THEN /\ Len(X) = Len(fileData)
             /\ \A r \in 1..Len(X) :
                   Len(X[r]) = Len(fileData[1].vector) * WordBits
             /\ failedStage # "decode"
        ELSE /\ pc = "Failed"
             /\ failedStage = "decode"
             /\ X = <<>>
             /\ n_pca = <<>>
             /\ X_pca = <<>>
             /\ X_embedded = <<>>

C5_Witness ==
    /\ pc = "Failed"
    /\ failedStage = "decode"
    /\ Len(data) = 2
    /\ Len(data[1].vector) = 1
    /\ Len(data[2].vector) = 2

(* C6: min-max normalization over the whole dataset: when max > min every  *)
(* value is (usage - min) / (max - min), lies in [0, 1], is 0 at the        *)
(* minimum and 1 at the maximum; when max = min every value is 0.           *)
C6_MinMaxNormalization ==
    norm_usages # <<>> =>
        /\ Len(norm_usages) = Len(data)
        /\ \A r \in 1..Len(data) :
              LET num == norm_usages[r][1]
                  den == norm_usages[r][2]
              IN  /\ den > 0
                  /\ IF HighUsage(data) > LowUsage(data)
                     THEN /\ num * (HighUsage(data) - LowUsage(data))
                                = (data[r].usage - LowUsage(data)) * den
                          /\ 0 <= num
                          /\ num <= den
                          /\ data[r].usage = LowUsage(data) => num = 0
                          /\ data[r].usage = HighUsage(data) => num = den
                     ELSE num = 0

C6_Witness ==
    /\ Len(norm_usages) = 3
    /\ norm_usages[1] = <<0, 2>>
    /\ norm_usages[2] = <<1, 2>>
    /\ norm_usages[3] = <<2, 2>>

(* C7 as stated: whatever the shape of its term, plain string or nested     *)
(* structure, a record is annotated iff its label contains a keyword,       *)
(* case-insensitively, or its normalized usage exceeds 0.8, and selection   *)
(* never aborts the run.                                                    *)
C7_EveryTermSelectable ==
    (X_embedded # <<>> /\ pc # "Reduced") =>
        /\ pc \in {"Rendered", "Done"}
        /\ Len(annotated) = Len(data)
        /\ \A r \in 1..Len(data) :
              (annotated[r] # "none") <=>
                  (LabelHasKeyword(data[r].term.text) \/ UsageAboveThreshold(data, r))

(* C7 amended: when every term is a plain string, a record is annotated iff *)
(* its label contains a keyword, case-insensitively, or its normalized      *)
(* usage is strictly greater than 0.8, a keyword label being annotated      *)
(* whatever its usage; when some term is a nested structure, selection      *)
(* aborts the run with an AttributeError before any artifact is written.    *)
C7_StringTermsSelected ==
    (X_embedded # <<>> /\ pc # "Reduced") =>
        IF AllStrings(data)
        THEN /\ pc \in {"Rendered", "Done"}
             /\ Len(annotated) = Len(data)
             /\ \A r \in 1..Len(data) :
                   /\ (annotated[r] # "none") <=>
                         (LabelHasKeyword(data[r].term.text)
                             \/ UsageAboveThreshold(data, r))
                   /\ LabelHasKeyword(data[r].term.text) => annotated[r] = "bold"
        ELSE /\ pc = "Failed"
             /\ failedStage = "render"
             /\ error = "AttributeError"
             /\ artifacts = {}

C7_Witness ==
    /\ pc = "Rendered"
    /\ Len(data) = 3
    /\ data[1].term = TermCat /\ data[1].usage = 0
    /\ data[2].term = TermOx /\ data[2].usage = 8
    /\ data[3].term = TermOx /\ data[3].usage = 10
    /\ annotated = <<"bold", "none", "plain">>

(* C8: the artifact is written at the input path with only its extension    *)
(* replaced by .png, which is never the input path itself, so the input     *)
(* file is never overwritten.                                               *)
C8_OnlyExtensionReplaced ==
    pc = "Done" =>
        /\ output_file = ExtensionReplaced(filename)
        /\ artifacts = {ExtensionReplaced(filename)}
        /\ output_file # filename
        /\ filename \notin artifacts

C10_ReducerConfiguration ==
    (DecodeAttempted /\ Len(fileData) >= 2) =>
        LET n == Len(fileData)
            comps == IF n < PcaCap THEN n ELSE PcaCap
            capped == IF n - 1 < PerplexityCap THEN n - 1 ELSE PerplexityCap
            hood == IF capped < 1 THEN 1 ELSE capped
        IN  /\ n_pca # <<>> => n_pca = <<comps>>
            /\ X_pca # <<>> => X_pca = <<n, comps>>
            /\ perplexity # <<>> =>
                  perplexity = <<hood>> /\ 1 <= hood /\ hood < n
            /\ X_embedded # <<>> => X_embedded = <<n, EmbedDims>>
            /\ (EqualWordCounts(fileData) /\ Len(fileData[1].vector) >= 1
                  /\ pc \notin {"Decoded", "PcaDone"}) =>
                  (X_pca # <<>> /\ perplexity # <<>> /\ X_embedded # <<>>)

C10_Witness ==
    /\ Len(data) = MaxSamples
    /\ n_pca = <<PcaCap>>
    /\ perplexity = <<PerplexityCap>>
    /\ X_embedded = <<MaxSamples, EmbedDims>>

====
